---- MODULE Spec2Model ----
(***************************************************************************)
(* js-pdf-rtl: layout of mixed-direction, mixed-weight rich text on a      *)
(* jsPDF document (src/unnamed/part_000, the current index.ts).            *)
(*                                                                         *)
(* Conventions.  A string is a sequence of code points (Nat).  Lengths     *)
(* (widths, margins, positions) are integers; the inputs are chosen even,  *)
(* so that the two halvings of the code (fontSize * 0.5, the centring      *)
(* offset / 2) are exact.  An optional value is Undefined or Some(v).       *)
(***************************************************************************)
EXTENDS Integers, Sequences, FiniteSets, TLC

VARIABLES
    doc,              \* the jsPDF document: pageSize, fontSize, font, weight
    formatter,        \* the options createRichTextFormatter closed over
    paragraph,        \* the arguments the host passes for the paragraph at hand
    rtlCache,         \* module-level Map word -> boolean (rtlCache)
    cld3Available,    \* module-level flag: "null", "true" or "false"
    detectorPromise,  \* module-level detectorPromise: "null"; pending, with its
                      \* initialiser suspended at "import" or at "load"; or
                      \* what it resolved to: "detector" or "none"
    call,             \* the paragraph call: where it is, its locals, its result
    output,           \* the doc.text and doc.addPage calls the document received
    fnArgs,           \* the arguments of a function exercised on its own
    fnResult,         \* its result (or NotRun)
    tasks,            \* concurrent processFragmentsToWords calls: words, position
    detectorLog,      \* the initialisations begun and the findLanguage calls made
    inFlight          \* concurrent paragraph calls on the one document

vars == << doc, formatter, paragraph, rtlCache, cld3Available, detectorPromise,
           call, output, fnArgs, fnResult, tasks, detectorLog, inFlight >>

\* the state of the concurrent callers
concurrentVars == << tasks, detectorLog, inFlight >>

\* undefined (or null), and a value that is present
Undefined == <<>>
Some(v) == <<v>>
IsDefined(o) == o # <<>>
Get(o) == o[1]
\* what JavaScript's if (x) and x || y test on an optional number
Truthy(o) == IsDefined(o) /\ Get(o) # 0

\* const DEFAULT_MARGIN = 20
DEFAULT_MARGIN == 20
\* const LINE_HEIGHT_MULTIPLIER = 0.5, in tenths
LINE_HEIGHT_MULTIPLIER_TENTHS == 5

\* a ?? b
Coalesce(a, b) == IF IsDefined(a) THEN a ELSE b

Max(a, b) == IF a >= b THEN a ELSE b
Min(a, b) == IF a <= b THEN a ELSE b

Reverse(s) == [i \in 1..Len(s) |-> s[Len(s) + 1 - i]]

(***************************************************************************)
(* The renderer (jsPDF), as far as the layout code uses it.                *)
(***************************************************************************)

\* Advance of one glyph at font size 10: a space is as wide in both weights,
\* any other glyph is wider in bold.
GlyphUnits(c, weight) ==
    IF c = 32 THEN 2 ELSE IF weight = "bold" THEN 6 ELSE 4

RECURSIVE SumUnits(_, _, _)
SumUnits(text, i, weight) ==
    IF i > Len(text) THEN 0
    ELSE GlyphUnits(text[i], weight) + SumUnits(text, i + 1, weight)

\* doc.getTextWidth(text): depends on the font size and weight now set
getTextWidth(d, text) == (SumUnits(text, 1, d.weight) * d.fontSize) \div 10

\* doc.setFont(font, "normal", weight)
setFontWeight(d, font, weight) == [d EXCEPT !.font = font, !.weight = weight]

\* doc.setFont(font): the family changes, the active style is kept
setFontFamily(d, font) == [d EXCEPT !.font = font]

\* doc.setFontSize(size)
setFontSize(d, size) == [d EXCEPT !.fontSize = size]

\* function setupFont(doc, config)
setupFont(d, config) ==
    LET d1 == IF Truthy(config.fontSize)
              THEN setFontSize(d, Get(config.fontSize)) ELSE d
    IN  IF IsDefined(config.font)
        THEN setFontWeight(d1, Get(config.font),
                           IF config.isBold = Some(TRUE) THEN "bold" ELSE "normal")
        ELSE d1

\* function resetFont(doc, defaultFont, defaultFontSize)
resetFont(d, defaultFont, defaultFontSize) ==
    LET d1 == IF IsDefined(defaultFont)
              THEN setFontFamily(d, Get(defaultFont)) ELSE d
    IN  IF Truthy(defaultFontSize)
        THEN setFontSize(d1, Get(defaultFontSize)) ELSE d1

\* function calculateLineMetrics(doc, customLineHeight, left, right, top, bottom)
calculateLineMetrics(d, customLineHeight, leftMargin, rightMargin, topMargin, bottomMargin) ==
    [ lineHeight   |-> IF Truthy(customLineHeight)
                       THEN Get(customLineHeight)
                       ELSE (d.fontSize * LINE_HEIGHT_MULTIPLIER_TENTHS) \div 10,
      pageWidth    |-> d.pageSize.width,
      pageHeight   |-> d.pageSize.height,
      maxWidth     |-> d.pageSize.width - leftMargin - rightMargin,
      spaceWidth   |-> getTextWidth(d, <<32>>),
      leftMargin   |-> leftMargin,
      rightMargin  |-> rightMargin,
      topMargin    |-> topMargin,
      bottomMargin |-> bottomMargin ]

(***************************************************************************)
(* Direction Classifier: isWordRtlAsync and its fallback.                  *)
(***************************************************************************)

\* /[\u0600-\u06FF\u0750-\u077F\u08A0-\u08FF\uFB50-\uFDFF\uFE70-\uFEFF]/
InRtlRanges(c) ==
    \/ (c >= 1536 /\ c <= 1791)
    \/ (c >= 1872 /\ c <= 1919)
    \/ (c >= 2208 /\ c <= 2303)
    \/ (c >= 64336 /\ c <= 65023)
    \/ (c >= 65136 /\ c <= 65279)

\* the regular expression's test(word)
FallbackIsRtl(word) == \E i \in 1..Len(word) : InRtlRanges(word[i])

\* rtl-detect's isRtlLang(language) || false, on the languages the detector names
isRtlLang(language) == language \in {"ar", "he", "fa", "ur"}

\* what detector.findLanguage(word) can do: throw, return nothing usable, or
\* name a language
Detections == {"throws", "nothing", "en", "ar"}

\* /\s/
IsWhitespace(c) == c \in {9, 10, 11, 12, 13, 32, 160}

\* fragment.text.split(/\s+/).filter((w) => w.length > 0)
RECURSIVE SplitFrom(_, _, _, _)
SplitFrom(text, i, cur, acc) ==
    IF i > Len(text)
    THEN IF Len(cur) > 0 THEN Append(acc, cur) ELSE acc
    ELSE IF IsWhitespace(text[i])
         THEN SplitFrom(text, i + 1, <<>>,
                        IF Len(cur) > 0 THEN Append(acc, cur) ELSE acc)
         ELSE SplitFrom(text, i + 1, Append(cur, text[i]), acc)

SplitWords(text) == SplitFrom(text, 1, <<>>, <<>>)

\* the tokens processFragmentsToWords walks, in order: each word of each
\* fragment with fragment.isBold || false
RECURSIVE FragmentTokens(_, _)
FragmentTokens(fragments, k) ==
    IF k > Len(fragments) THEN <<>>
    ELSE LET ws == SplitWords(fragments[k].text)
             b  == fragments[k].isBold = Some(TRUE)
         IN  [j \in 1..Len(ws) |-> [word |-> ws[j], isBold |-> b]]
             \o FragmentTokens(fragments, k + 1)

(***************************************************************************)
(* Sequence Reorderer: reverseLanguageSequences(paragraph, isRTL).         *)
(***************************************************************************)

\* the paragraph direction ignored: right-to-left runs are the ones reversed
MutShouldReverseRtlRuns(isRTL, currentLanguageType) == Get(currentLanguageType)

\* const shouldReverse = isRTL ? !currentLanguageType : currentLanguageType
shouldReverse(isRTL, currentLanguageType) ==
    IF isRTL THEN ~Get(currentLanguageType) ELSE Get(currentLanguageType)

\* result.push(...currentSequence.reverse()) or result.push(...currentSequence)
PushSequence(result, currentSequence, isRTL, currentLanguageType) ==
    IF Len(currentSequence) > 0
    THEN IF shouldReverse(isRTL, currentLanguageType)
         THEN result \o Reverse(currentSequence)
         ELSE result \o currentSequence
    ELSE result

\* the for loop over paragraph; currentLanguageType starts null (Undefined)
RECURSIVE RlsLoop(_, _, _, _, _, _)
RlsLoop(words, i, isRTL, result, currentSequence, currentLanguageType) ==
    IF i > Len(words)
    THEN \* process the last sequence
         PushSequence(result, currentSequence, isRTL, currentLanguageType)
    ELSE LET wordObj == words[i]
             wordLanguageType == wordObj.isRtlLang
         IN  IF currentLanguageType = Undefined
                \/ currentLanguageType = Some(wordLanguageType)
             THEN RlsLoop(words, i + 1, isRTL, result,
                          Append(currentSequence, wordObj),
                          Some(wordLanguageType))
             ELSE RlsLoop(words, i + 1, isRTL,
                          PushSequence(result, currentSequence, isRTL,
                                       currentLanguageType),
                          <<wordObj>>, Some(wordLanguageType))

reverseLanguageSequences(words, isRTL) ==
    RlsLoop(words, 1, isRTL, <<>>, <<>>, Undefined)

(***************************************************************************)
(* Line Builder: buildRichLines(doc, words, metrics).                      *)
(***************************************************************************)

\* doc.getTextWidth(wordObj.word + " "), in the font state of the moment
wordWidthPlusSpace(d, wordObj) == getTextWidth(d, Append(wordObj.word, 32))

\* without the currentLine.length > 0 test
MutClosesEmptyLine(currentLine, currentLineWidth, w, maxWidth) ==
    currentLineWidth + w > maxWidth

\* the width test made before the word is counted
MutClosesLineLate(currentLine, currentLineWidth, w, maxWidth) ==
    Len(currentLine) > 0 /\ currentLineWidth > maxWidth

\* a line closed already when the word would fill it exactly: >= for >
MutClosesFullLine(currentLine, currentLineWidth, w, maxWidth) ==
    Len(currentLine) > 0 /\ currentLineWidth + w >= maxWidth

\* whether the forEach body closes the current line before taking the word
ClosesLine(currentLine, currentLineWidth, w, maxWidth) ==
    Len(currentLine) > 0 /\ currentLineWidth + w > maxWidth

RECURSIVE BrlLoop(_, _, _, _, _, _, _)
BrlLoop(d, words, i, maxWidth, lines, currentLine, currentLineWidth) ==
    IF i > Len(words)
    THEN \* write remaining words
         IF Len(currentLine) > 0 THEN Append(lines, currentLine) ELSE lines
    ELSE LET w == wordWidthPlusSpace(d, words[i])
         IN  IF ClosesLine(currentLine, currentLineWidth, w, maxWidth)
             THEN BrlLoop(d, words, i + 1, maxWidth,
                          Append(lines, currentLine), <<words[i]>>, w)
             ELSE BrlLoop(d, words, i + 1, maxWidth, lines,
                          Append(currentLine, words[i]), currentLineWidth + w)

buildRichLines(d, words, metrics) ==
    BrlLoop(d, words, 1, metrics.maxWidth, <<>>, <<>>, 0)

(***************************************************************************)
(* Pagination Layout Engine: layoutLinesAcrossPages.  The result is the    *)
(* returned y and the callback invocations in the order they were made.    *)
(***************************************************************************)

\* const bottomBoundary = metrics.pageHeight - metrics.bottomMargin
bottomBoundary(metrics) == metrics.pageHeight - metrics.bottomMargin

\* a top margin that is not held back to the bottom boundary
MutSafeTopMarginUnclamped(metrics) == Max(0, metrics.topMargin)

\* Math.max(0, Math.min(metrics.topMargin, bottomBoundary))
safeTopMargin(metrics) == Max(0, Min(metrics.topMargin, bottomBoundary(metrics)))

\* a page break already at the boundary: >= for >
MutNeedsPageBreakAtBoundary(y, metrics) == y >= bottomBoundary(metrics)

\* if (y > bottomBoundary)
NeedsPageBreak(y, metrics) == y > bottomBoundary(metrics)

PageBreakCall == [cb |-> "onPageBreak"]
LineCall(line, y) == [cb |-> "onLine", line |-> line, y |-> y]

\* the line after a page break is not handed to onLine: an else for a fall-through
RECURSIVE MutLayoutLoopSkipsLine(_, _, _, _, _, _)
MutLayoutLoopSkipsLine(lines, i, metrics, y, cbs, calls) ==
    IF i > Len(lines) THEN [y |-> y, calls |-> calls]
    ELSE IF NeedsPageBreak(y, metrics)
         THEN MutLayoutLoopSkipsLine(lines, i + 1, metrics,
                  safeTopMargin(metrics) + metrics.lineHeight, cbs,
                  IF cbs.onPageBreak THEN Append(calls, PageBreakCall) ELSE calls)
         ELSE MutLayoutLoopSkipsLine(lines, i + 1, metrics,
                  y + metrics.lineHeight, cbs,
                  IF cbs.onLine THEN Append(calls, LineCall(lines[i], y))
                  ELSE calls)

\* lines.forEach; cbs says which of the optional callbacks were passed
RECURSIVE LayoutLoop(_, _, _, _, _, _)
LayoutLoop(lines, i, metrics, y, cbs, calls) ==
    IF i > Len(lines) THEN [y |-> y, calls |-> calls]
    ELSE LET brk == NeedsPageBreak(y, metrics)
             y1  == IF brk THEN safeTopMargin(metrics) ELSE y
             c1  == IF brk /\ cbs.onPageBreak
                    THEN Append(calls, PageBreakCall) ELSE calls
             c2  == IF cbs.onLine THEN Append(c1, LineCall(lines[i], y1)) ELSE c1
         IN  LayoutLoop(lines, i + 1, metrics, y1 + metrics.lineHeight, cbs, c2)

\* without the early return for an empty line list
MutLayoutNoEmptyCase(lines, metrics, currentY, cbs) ==
    LayoutLoop(lines, 1, metrics, currentY, cbs, <<>>)

layoutLinesAcrossPages(lines, metrics, currentY, cbs) ==
    IF Len(lines) = 0
    THEN [y |-> currentY + metrics.lineHeight, calls |-> <<>>]
    ELSE LayoutLoop(lines, 1, metrics, currentY, cbs, <<>>)

(***************************************************************************)
(* Alignment Resolver: getStartingX.                                       *)
(***************************************************************************)

\* a centring that adds the whole of the free width
MutStartingXNotHalved(pageWidth, leftMargin, rightMargin, currentLineWidth, align) ==
    CASE align = "left"   -> leftMargin
      [] align = "right"  -> pageWidth - rightMargin - currentLineWidth
      [] align = "center" ->
            leftMargin + Max(0, pageWidth - leftMargin - rightMargin
                                - currentLineWidth)

\* the three explicit cases of the switch
StartingXFor(pageWidth, leftMargin, rightMargin, currentLineWidth, align) ==
    CASE align = "left"   -> leftMargin
      [] align = "right"  -> pageWidth - rightMargin - currentLineWidth
      [] align = "center" ->
            LET availableWidth == pageWidth - leftMargin - rightMargin
            IN  leftMargin + Max(0, (availableWidth - currentLineWidth) \div 2)

\* a default alignment that ignores the paragraph's direction
MutGetStartingXDefaultLeft(pageWidth, leftMargin, rightMargin, currentLineWidth, isRTL, align) ==
    StartingXFor(pageWidth, leftMargin, rightMargin, currentLineWidth,
                 IF IsDefined(align) THEN Get(align) ELSE "left")

\* default: the call repeated with align: isRTL ? "right" : "left"
getStartingX(pageWidth, leftMargin, rightMargin, currentLineWidth, isRTL, align) ==
    IF IsDefined(align)
    THEN StartingXFor(pageWidth, leftMargin, rightMargin, currentLineWidth,
                      Get(align))
    ELSE StartingXFor(pageWidth, leftMargin, rightMargin, currentLineWidth,
                      IF isRTL THEN "right" ELSE "left")

(***************************************************************************)
(* Line Renderer: writeRichLine.  The result is the document's font state  *)
(* afterwards and the doc.text calls made, in order.                       *)
(***************************************************************************)

\* if (font) doc.setFont(font, "normal", item.isBold ? "bold" : "normal")
SetWeightFor(d, font, item) ==
    IF IsDefined(font)
    THEN setFontWeight(d, Get(font), IF item.isBold THEN "bold" ELSE "normal")
    ELSE d

\* the first forEach: the line's width, each word measured after its weight is set
RECURSIVE MeasureLoop(_, _, _, _, _, _)
MeasureLoop(d, lineCopy, i, font, spaceWidth, currentLineWidth) ==
    IF i > Len(lineCopy) THEN [doc |-> d, width |-> currentLineWidth]
    ELSE LET d1 == SetWeightFor(d, font, lineCopy[i])
             w  == currentLineWidth + getTextWidth(d1, lineCopy[i].word)
         IN  MeasureLoop(d1, lineCopy, i + 1, font, spaceWidth,
                         IF i # Len(lineCopy) THEN w + spaceWidth ELSE w)

\* doc.text(item.word, currentX, y, { isOutputRtl: item.isRtlLang }), with the
\* font state the renderer draws it in; item is kept to tell whose word it is
TextCall(d, item, x, y) ==
    [ op |-> "text", text |-> item.word, x |-> x, y |-> y,
      isOutputRtl |-> item.isRtlLang, weight |-> d.weight,
      fontSize |-> d.fontSize, item |-> item ]

\* the second forEach: the draws
RECURSIVE DrawLoop(_, _, _, _, _, _, _, _)
DrawLoop(d, lineCopy, i, font, spaceWidth, currentX, y, draws) ==
    IF i > Len(lineCopy) THEN [doc |-> d, draws |-> draws]
    ELSE LET d1 == SetWeightFor(d, font, lineCopy[i])
             wordWidth == getTextWidth(d1, lineCopy[i].word)
             x1 == currentX + wordWidth
         IN  DrawLoop(d1, lineCopy, i + 1, font, spaceWidth,
                      IF i # Len(lineCopy) THEN x1 + spaceWidth ELSE x1,
                      y, Append(draws, TextCall(d1, lineCopy[i], currentX, y)))

\* a renderer that draws every line in line order
MutLineCopyNeverReversed(line, isRTL) == line

\* const lineCopy = [...line]; if (isRTL) lineCopy.reverse()
LineCopy(line, isRTL) == IF isRTL THEN Reverse(line) ELSE line

\* the caller's line after writeRichLine: reverse() acts on the copy, and
\* nothing is assigned to line or to its elements
LineAfterWrite(line, isRTL) == line

writeRichLine(d, line, y, isRTL, align, pageWidth, leftMargin, rightMargin, font) ==
    LET spaceWidth == getTextWidth(d, <<32>>)
        lineCopy == LineCopy(line, isRTL)
        m == MeasureLoop(d, lineCopy, 1, font, spaceWidth, 0)
        currentX == getStartingX(pageWidth, leftMargin, rightMargin, m.width,
                                 isRTL, align)
    IN  DrawLoop(m.doc, lineCopy, 1, font, spaceWidth, currentX, y, <<>>)

(***************************************************************************)
(* processLineLayout: build the lines, then lay them out with              *)
(* onPageBreak: () => doc.addPage() and onLine: writeRichLine.             *)
(***************************************************************************)

AddPageCall == [op |-> "addPage"]

\* the callbacks' effect on the document, in the order layoutLinesAcrossPages
\* made the calls
RECURSIVE ApplyCalls(_, _, _, _, _, _)
ApplyCalls(d, calls, i, metrics, config, sent) ==
    IF i > Len(calls) THEN [doc |-> d, sent |-> sent]
    ELSE IF calls[i].cb = "onPageBreak"
         THEN ApplyCalls(d, calls, i + 1, metrics, config,
                         Append(sent, AddPageCall))
         ELSE LET r == writeRichLine(d, calls[i].line, calls[i].y, config.isRTL,
                                     config.align, metrics.pageWidth,
                                     metrics.leftMargin, metrics.rightMargin,
                                     config.defaultFont)
              IN  ApplyCalls(r.doc, calls, i + 1, metrics, config,
                             sent \o r.draws)

processLineLayout(d, words, currentY, metrics, config) ==
    LET lines == buildRichLines(d, words, metrics)
        lay == layoutLinesAcrossPages(lines, metrics, currentY,
                                      [onPageBreak |-> TRUE, onLine |-> TRUE])
        r == ApplyCalls(d, lay.calls, 1, metrics, config, <<>>)
    IN  [doc |-> r.doc, sent |-> r.sent, finalY |-> lay.y]

(***************************************************************************)
(* isWordRtlAsync(word) with getLanguageDetector(), as one step of the     *)
(* paragraph that awaits it.  Each outcome is the value returned and the   *)
(* module-level state left behind.                                         *)
(***************************************************************************)

CachePut(cache, word, isRtl) ==
    [w \in DOMAIN cache \cup {word} |-> IF w = word THEN isRtl ELSE cache[w]]

\* getLanguageDetector(): the detector states it can leave, and what it returns
DetectorOutcomes(available, promise) ==
    IF available = "false"
    THEN {[available |-> available, promise |-> promise, detector |-> "none"]}
    ELSE IF promise = "null"
         THEN { [available |-> "true", promise |-> "detector",
                 detector |-> "detector"],
                [available |-> "false", promise |-> "none", detector |-> "none"] }
         ELSE {[available |-> available, promise |-> promise,
                detector |-> promise]}

\* an isWordRtlAsync without the heuristic: a word the detector does not
\* identify is left-to-right
MutDetectWithNoHeuristic(word, cache, det, detection) ==
    LET isRtl == /\ det.detector = "detector"
                 /\ detection \notin {"throws", "nothing"}
                 /\ detection \in {"ar", "he", "fa", "ur"}
    IN  [ isRtl |-> isRtl, cache |-> CachePut(cache, word, isRtl),
          available |-> det.available, promise |-> det.promise ]

\* the part of isWordRtlAsync after the cache miss, for one detector outcome
\* and one behaviour of detector.findLanguage
DetectWith(word, cache, det, detection) ==
    LET isRtl == IF det.detector = "detector" /\ detection \notin {"throws", "nothing"}
                 THEN isRtlLang(detection)
                 ELSE FallbackIsRtl(word)
    IN  [ isRtl |-> isRtl, cache |-> CachePut(cache, word, isRtl),
          available |-> det.available, promise |-> det.promise ]

isWordRtlAsync(word, cache, available, promise) ==
    IF word \in DOMAIN cache
    THEN {[ isRtl |-> cache[word], cache |-> cache,
            available |-> available, promise |-> promise ]}
    ELSE { DetectWith(word, cache, det, detection) :
             det \in DetectorOutcomes(available, promise),
             detection \in Detections }

(***************************************************************************)
(* createRichTextFormatter and the two paragraph entry points.             *)
(***************************************************************************)

\* the destructuring defaults of createRichTextFormatter's options
FormatterOf(options) ==
    [ defaultMargin       |-> Coalesce(options.defaultMargin, Some(DEFAULT_MARGIN)),
      defaultLeftMargin   |-> options.defaultLeftMargin,
      defaultRightMargin  |-> options.defaultRightMargin,
      defaultTopMargin    |-> options.defaultTopMargin,
      defaultBottomMargin |-> options.defaultBottomMargin,
      defaultIsRTL        |-> Coalesce(options.defaultIsRTL, Some(FALSE)),
      defaultFontSize     |-> options.defaultFontSize,
      defaultFont         |-> options.defaultFont ]

\* setupFont(doc, { fontSize: defaultFontSize, font: defaultFont })
DocAfterCreate(d, options) ==
    setupFont(d, [fontSize |-> options.defaultFontSize,
                  font |-> options.defaultFont, isBold |-> Undefined])

\* the object the formatter's addRichParagraph / measureRichParagraph pass on
ResolveParams(f, args) ==
    [ fragments        |-> args.fragments,
      currentY         |-> args.currentY,
      customLineHeight |-> args.customLineHeight,
      align            |-> args.align,
      margin       |-> Coalesce(args.margin, f.defaultMargin),
      leftMargin   |-> Coalesce(args.leftMargin, Coalesce(args.margin,
                          Coalesce(f.defaultLeftMargin, f.defaultMargin))),
      rightMargin  |-> Coalesce(args.rightMargin, Coalesce(args.margin,
                          Coalesce(f.defaultRightMargin, f.defaultMargin))),
      topMargin    |-> Coalesce(args.topMargin, Coalesce(args.margin,
                          Coalesce(f.defaultTopMargin, f.defaultMargin))),
      bottomMargin |-> Coalesce(args.bottomMargin, Coalesce(args.margin,
                          Coalesce(f.defaultBottomMargin, f.defaultMargin))),
      isRTL           |-> Coalesce(args.isRTL, f.defaultIsRTL),
      fontSize        |-> Coalesce(args.fontSize, f.defaultFontSize),
      defaultFont     |-> f.defaultFont,
      defaultFontSize |-> f.defaultFontSize ]

\* the head of addRichParagraphAsync and of measureRichParagraphAsync:
\* setupFont(doc, { fontSize })
DocAtStart(d, params) ==
    setupFont(d, [fontSize |-> params.fontSize, font |-> Undefined,
                  isBold |-> Undefined])

\* fallbackMargin, the effective margins, and calculateLineMetrics
MetricsAtStart(d, params) ==
    LET fallbackMargin == Coalesce(params.margin, Some(DEFAULT_MARGIN))
    IN  calculateLineMetrics(d, params.customLineHeight,
            Get(Coalesce(params.leftMargin, fallbackMargin)),
            Get(Coalesce(params.rightMargin, fallbackMargin)),
            Get(Coalesce(params.topMargin, fallbackMargin)),
            Get(Coalesce(params.bottomMargin, fallbackMargin)))

\* isRTL = false
ParagraphIsRtl(params) == Get(Coalesce(params.isRTL, Some(FALSE)))

(***************************************************************************)
(* The inputs the model draws from.                                        *)
(***************************************************************************)

\* at most this many fragments in a paragraph
MaxFragments == 2

\* " \n", "a", "a b", and two Arabic words (alef, beh) with a space between
FragmentTexts == { <<32, 10>>, <<97>>, <<97, 32, 98>>, <<1575, 32, 1576>> }

Fragments == [text : FragmentTexts, isBold : {Undefined, Some(TRUE)}]

FragmentLists == UNION { [1..n -> Fragments] : n \in 0..MaxFragments }

HostArguments ==
    [ fragments        : FragmentLists,
      currentY         : {38, 46},
      customLineHeight : {Undefined},
      isRTL            : {Undefined, Some(TRUE)},
      margin           : {Undefined},
      leftMargin       : {Undefined},
      rightMargin      : {Undefined},
      topMargin        : {Undefined},
      bottomMargin     : {Undefined},
      align            : {Undefined},
      fontSize         : {Undefined, Some(20)} ]

FormatterOptions ==
    [ defaultMargin       : {Undefined},
      defaultLeftMargin   : {Undefined},
      defaultRightMargin  : {Undefined},
      defaultTopMargin    : {Undefined},
      defaultBottomMargin : {Undefined},
      defaultIsRTL        : {Undefined},
      defaultFontSize     : {Undefined},
      defaultFont         : {Undefined, Some("Amiri")} ]

\* the document the host hands to createRichTextFormatter
HostDocuments ==
    [ pageSize : {[width |-> 52, height |-> 60]},
      fontSize : {10},
      font     : {"helvetica"},
      weight   : {"normal", "bold"} ]

NoCall == [pc |-> "idle"]

\* no concurrent callers
NoTasks ==
    /\ tasks = << >>
    /\ detectorLog = << >>
    /\ inFlight = << >>
NoArgs == [fn |-> "none"]
NotRun == [ran |-> FALSE]

(***************************************************************************)
(* The paragraph state machine: a formatter on one document, and one       *)
(* paragraph call followed from its start to its return.                   *)
(***************************************************************************)

Init ==
    \E d \in HostDocuments, options \in FormatterOptions, args \in HostArguments :
        /\ doc = DocAfterCreate(d, options)
        /\ formatter = FormatterOf(options)
        /\ paragraph = args
        /\ rtlCache = << >>
        /\ cld3Available = "null"
        /\ detectorPromise = "null"
        /\ call = NoCall
        /\ output = << >>
        /\ fnArgs = NoArgs
        /\ fnResult = NotRun
        /\ NoTasks

\* either entry point up to its first await: setupFont, the metrics, and the
\* words processFragmentsToWords is about to classify
Begin(mode) ==
    /\ call.pc = "idle"
    /\ LET params == ResolveParams(formatter, paragraph)
           d1 == DocAtStart(doc, params)
       IN  /\ doc' = d1
           /\ call' = [ pc |-> "words", mode |-> mode, params |-> params,
                        pre |-> doc, metrics |-> MetricsAtStart(d1, params),
                        tokens |-> FragmentTokens(params.fragments, 1),
                        words |-> << >> ]
    /\ UNCHANGED << formatter, paragraph, rtlCache, cld3Available,
                    detectorPromise, output, fnArgs, fnResult,
                    concurrentVars >>

\* formatter.addRichParagraph(args)
AddRichParagraph == Begin("add")

\* formatter.measureRichParagraph(args)
MeasureRichParagraph == Begin("measure")

\* processFragmentsToWords: words.push({word, isBold, isRtlLang: await
\* isWordRtlAsync(word)}) for the next word
ClassifyWord ==
    /\ call.pc = "words"
    /\ Len(call.tokens) > 0
    /\ LET token == Head(call.tokens)
       IN  \E r \in isWordRtlAsync(token.word, rtlCache, cld3Available,
                                   detectorPromise) :
             /\ rtlCache' = r.cache
             /\ cld3Available' = r.available
             /\ detectorPromise' = r.promise
             /\ call' = [call EXCEPT
                           !.tokens = Tail(@),
                           !.words = Append(@, [word |-> token.word,
                                                isBold |-> token.isBold,
                                                isRtlLang |-> r.isRtl])]
    /\ UNCHANGED << doc, formatter, paragraph, output, fnArgs, fnResult,
                    concurrentVars >>

\* addRichParagraphAsync after processFragmentsToWords: reorder,
\* processLineLayout, resetFont, return finalY
addRichParagraphTail(d, params, metrics, words) ==
    LET isRTL == ParagraphIsRtl(params)
        processedWords == reverseLanguageSequences(words, isRTL)
        r == processLineLayout(d, processedWords, params.currentY, metrics,
                               [isRTL |-> isRTL, align |-> params.align,
                                defaultFont |-> params.defaultFont])
    IN  [ doc |-> resetFont(r.doc, params.defaultFont, params.defaultFontSize),
          sent |-> r.sent,
          ret |-> [finalY |-> r.finalY] ]

\* a measurement that does not paginate: lineCount lines below currentY
MutMeasureUnpaginated(d, params, metrics, words) ==
    LET lines == buildRichLines(d, reverseLanguageSequences(words,
                                    ParagraphIsRtl(params)), metrics)
    IN  [ doc |-> resetFont(d, params.defaultFont, params.defaultFontSize),
          sent |-> << >>,
          ret |-> [ lineHeight |-> metrics.lineHeight, lineCount |-> Len(lines),
                    currentY |-> params.currentY
                                 + Max(1, Len(lines)) * metrics.lineHeight ] ]

\* measureRichParagraphAsync after processFragmentsToWords: reorder,
\* buildRichLines, layoutLinesAcrossPages without callbacks, resetFont
measureRichParagraphTail(d, params, metrics, words) ==
    LET isRTL == ParagraphIsRtl(params)
        processedWords == reverseLanguageSequences(words, isRTL)
        lines == buildRichLines(d, processedWords, metrics)
        lay == layoutLinesAcrossPages(lines, metrics, params.currentY,
                                      [onPageBreak |-> FALSE, onLine |-> FALSE])
    IN  [ doc |-> resetFont(d, params.defaultFont, params.defaultFontSize),
          sent |-> << >>,
          ret |-> [ lineHeight |-> metrics.lineHeight,
                    lineCount |-> Len(lines), currentY |-> lay.y ] ]

Finish(mode, r) ==
    /\ call.pc = "words"
    /\ call.mode = mode
    /\ Len(call.tokens) = 0
    /\ doc' = r.doc
    /\ output' = output \o r.sent
    /\ call' = [ pc |-> "done", mode |-> mode, params |-> call.params,
                 pre |-> call.pre, metrics |-> call.metrics,
                 words |-> call.words, ret |-> r.ret ]
    /\ UNCHANGED << formatter, paragraph, rtlCache, cld3Available,
                    detectorPromise, fnArgs, fnResult,
                    concurrentVars >>

FinishAdd ==
    Finish("add", addRichParagraphTail(doc, call.params, call.metrics, call.words))

FinishMeasure ==
    Finish("measure",
           measureRichParagraphTail(doc, call.params, call.metrics, call.words))

Next ==
    \/ AddRichParagraph
    \/ MeasureRichParagraph
    \/ ClassifyWord
    \/ FinishAdd
    \/ FinishMeasure

Spec == Init /\ [][Next]_vars

(***************************************************************************)
(* The layout functions exercised on their own, over wider inputs than a   *)
(* paragraph of the size above produces.  The paragraph machine stands     *)
(* still in these.                                                         *)
(***************************************************************************)

NoParagraph ==
    /\ doc = [ pageSize |-> [width |-> 52, height |-> 60], fontSize |-> 10,
               font |-> "helvetica", weight |-> "normal" ]
    /\ formatter = FormatterOf(CHOOSE o \in FormatterOptions :
                                  o.defaultFont = Undefined)
    /\ paragraph = CHOOSE a \in HostArguments : a.fragments = << >>
    /\ rtlCache = << >>
    /\ cld3Available = "null"
    /\ detectorPromise = "null"
    /\ call = NoCall
    /\ output = << >>

paragraphVars == << doc, formatter, paragraph, rtlCache, cld3Available,
                    detectorPromise, call, output >>

\* the i-th of a list of distinct one-letter words: "a", "b", ...
Letter(i) == << 96 + i >>

\* --- layoutLinesAcrossPages ---

\* at most this many lines handed to layoutLinesAcrossPages
MaxLines == 7

\* n lines, each holding one word that names it
LinesOf(n) ==
    [i \in 1..n |-> << [word |-> Letter(i), isBold |-> FALSE, isRtlLang |-> FALSE] >>]

LayoutMetrics ==
    [ lineHeight : {10, 30}, pageWidth : {200}, pageHeight : {100},
      maxWidth : {160}, spaceWidth : {2}, leftMargin : {20}, rightMargin : {20},
      topMargin : {20, 90}, bottomMargin : {20, 100, 110} ]

LayoutArguments ==
    [ fn : {"layoutLinesAcrossPages"},
      lines : {LinesOf(n) : n \in 0..MaxLines},
      metrics : LayoutMetrics,
      currentY : {0, 75, 80, 81},
      cbs : { [onPageBreak |-> TRUE, onLine |-> TRUE],
              [onPageBreak |-> FALSE, onLine |-> FALSE] } ]

InitLayout ==
    /\ NoParagraph
    /\ NoTasks
    /\ fnArgs \in LayoutArguments
    /\ fnResult = NotRun

RunLayout ==
    /\ fnArgs.fn = "layoutLinesAcrossPages"
    /\ ~fnResult.ran
    /\ LET r == layoutLinesAcrossPages(fnArgs.lines, fnArgs.metrics,
                                       fnArgs.currentY, fnArgs.cbs)
       IN  fnResult' = [ran |-> TRUE, y |-> r.y, calls |-> r.calls]
    /\ UNCHANGED << paragraphVars, concurrentVars, fnArgs >>

SpecLayout == InitLayout /\ [][RunLayout]_vars

\* --- buildRichLines ---

\* at most this many words handed to buildRichLines
MaxWords == 4

\* "a" regular, "a" bold, and the wider "abc"
BuilderWords ==
    { [word |-> <<97>>, isBold |-> FALSE, isRtlLang |-> FALSE],
      [word |-> <<97>>, isBold |-> TRUE, isRtlLang |-> FALSE],
      [word |-> <<97, 98, 99>>, isBold |-> FALSE, isRtlLang |-> TRUE] }

BuilderArguments ==
    [ fn : {"buildRichLines"},
      doc : [ pageSize : {[width |-> 52, height |-> 60]}, fontSize : {10},
              font : {"helvetica"}, weight : {"normal", "bold"} ],
      words : UNION { [1..n -> BuilderWords] : n \in 0..MaxWords },
      maxWidth : {-2, 0, 6, 12, 20} ]

InitLines ==
    /\ NoParagraph
    /\ NoTasks
    /\ fnArgs \in BuilderArguments
    /\ fnResult = NotRun

RunBuildLines ==
    /\ fnArgs.fn = "buildRichLines"
    /\ ~fnResult.ran
    /\ fnResult' = [ ran |-> TRUE,
                     lines |-> buildRichLines(fnArgs.doc, fnArgs.words,
                                              [maxWidth |-> fnArgs.maxWidth]) ]
    /\ UNCHANGED << paragraphVars, concurrentVars, fnArgs >>

SpecLines == InitLines /\ [][RunBuildLines]_vars

\* --- reverseLanguageSequences ---

\* at most this many words handed to reverseLanguageSequences
MaxSequence == 5

\* distinct words "a", "b", ... with the given direction flags
FlaggedWords(flags) ==
    [i \in 1..Len(flags) |->
        [word |-> Letter(i), isBold |-> FALSE, isRtlLang |-> flags[i]]]

ReorderArguments ==
    [ fn : {"reverseLanguageSequences"},
      words : { FlaggedWords(flags) :
                  flags \in UNION { [1..n -> BOOLEAN] : n \in 0..MaxSequence } },
      isRTL : BOOLEAN ]

InitReorder ==
    /\ NoParagraph
    /\ NoTasks
    /\ fnArgs \in ReorderArguments
    /\ fnResult = NotRun

RunReorder ==
    /\ fnArgs.fn = "reverseLanguageSequences"
    /\ ~fnResult.ran
    /\ fnResult' = [ ran |-> TRUE,
                     words |-> reverseLanguageSequences(fnArgs.words, fnArgs.isRTL) ]
    /\ UNCHANGED << paragraphVars, concurrentVars, fnArgs >>

SpecReorder == InitReorder /\ [][RunReorder]_vars

(***************************************************************************)
(* Concurrent classification: the host has several paragraphs in flight,   *)
(* each one's processFragmentsToWords classifying its words in turn.  A    *)
(* task runs without interruption between two awaits; isWordRtlAsync       *)
(* suspends at await getLanguageDetector(), and the initialiser inside     *)
(* getLanguageDetector suspends at await import(...) and at                *)
(* await loadModule().                                                     *)
(***************************************************************************)

\* the concurrent processFragmentsToWords calls
TaskIds == {1, 2}

\* at most this many words in one task's fragments
MaxTaskWords == 2

\* "a" and the Arabic letter alef
TaskWords == { <<97>>, <<1575>> }

TaskWordLists == UNION { [1..n -> TaskWords] : n \in 0..MaxTaskWords }

NewTask(words) ==
    [ pc |-> IF Len(words) = 0 THEN "done" ELSE "call", words |-> words,
      results |-> << >> ]

InitClassify ==
    /\ NoParagraph
    /\ fnArgs = NoArgs
    /\ fnResult = NotRun
    /\ \E lists \in [TaskIds -> TaskWordLists] :
           tasks = [t \in TaskIds |-> NewTask(lists[t])]
    /\ detectorLog = << >>
    /\ inFlight = << >>

\* isWordRtlAsync returned isRtl for the task's current word; detection says
\* how: "cached", "unavailable" (no detector), or what findLanguage did
Returned(task, isRtl, detection) ==
    [ pc |-> IF Len(task.words) = 1 THEN "done" ELSE "call",
      words |-> Tail(task.words),
      results |-> Append(task.results, [ word |-> Head(task.words),
                                         isRtl |-> isRtl,
                                         detection |-> detection ]) ]

\* isWordRtlAsync(word) on a cached word: returns rtlCache.get(word)
ReturnCached(t) ==
    /\ tasks[t].pc = "call"
    /\ Head(tasks[t].words) \in DOMAIN rtlCache
    /\ tasks' = [tasks EXCEPT
                   ![t] = Returned(@, rtlCache[Head(@.words)], "cached")]
    /\ UNCHANGED << paragraphVars, fnArgs, fnResult, detectorLog, inFlight >>

\* a getLanguageDetector that keeps no promise: every call that finds no
\* settled detector starts the initialiser
MutAwaitDetectorInitialisesAgain(t) ==
    /\ tasks[t].pc = "call"
    /\ Head(tasks[t].words) \notin DOMAIN rtlCache
    /\ tasks' = [tasks EXCEPT ![t].pc = "await promise"]
    /\ IF detectorPromise \in {"detector", "none"}
       THEN UNCHANGED << detectorPromise, detectorLog >>
       ELSE /\ detectorPromise' = "import"
            /\ detectorLog' = Append(detectorLog, [op |-> "init"])
    /\ UNCHANGED << doc, formatter, paragraph, rtlCache, cld3Available, call,
                    output, fnArgs, fnResult, inFlight >>

\* isWordRtlAsync(word) on a cache miss, up to await getLanguageDetector();
\* getLanguageDetector runs to its return, and on its first call the
\* initialiser it starts runs to await import("cld3-asm")
AwaitDetector(t) ==
    /\ tasks[t].pc = "call"
    /\ Head(tasks[t].words) \notin DOMAIN rtlCache
    /\ IF cld3Available = "false"
       THEN /\ tasks' = [tasks EXCEPT ![t].pc = "await null"]
            /\ UNCHANGED << detectorPromise, detectorLog >>
       ELSE /\ tasks' = [tasks EXCEPT ![t].pc = "await promise"]
            /\ IF detectorPromise = "null"
               THEN /\ detectorPromise' = "import"
                    /\ detectorLog' = Append(detectorLog, [op |-> "init"])
               ELSE UNCHANGED << detectorPromise, detectorLog >>
    /\ UNCHANGED << doc, formatter, paragraph, rtlCache, cld3Available, call,
                    output, fnArgs, fnResult, inFlight >>

\* the initialiser after await import("cld3-asm"): the import failed or has
\* no loadModule function, or loadModule() is called and awaited
ImportSettles ==
    /\ detectorPromise = "import"
    /\ \/ /\ detectorPromise' = "load"
          /\ UNCHANGED cld3Available
       \/ /\ cld3Available' = "false"
          /\ detectorPromise' = "none"
    /\ UNCHANGED << doc, formatter, paragraph, rtlCache, call, output, fnArgs,
                    fnResult, concurrentVars >>

\* the initialiser after await loadModule(): the factory is missing or
\* throws, or it creates the detector
LoadSettles ==
    /\ detectorPromise = "load"
    /\ \/ /\ cld3Available' = "true"
          /\ detectorPromise' = "detector"
       \/ /\ cld3Available' = "false"
          /\ detectorPromise' = "none"
    /\ UNCHANGED << doc, formatter, paragraph, rtlCache, call, output, fnArgs,
                    fnResult, concurrentVars >>

\* what await getLanguageDetector() hands back to a suspended task
Awaited(t) ==
    IF tasks[t].pc = "await null" THEN "none" ELSE detectorPromise

\* isWordRtlAsync after the await, with a detector: findLanguage(word), then
\* the mapped language or the heuristic; the result is cached and returned
Identify(t) ==
    /\ tasks[t].pc = "await promise"
    /\ detectorPromise = "detector"
    /\ \E detection \in Detections :
         LET word == Head(tasks[t].words)
             r == DetectWith(word, rtlCache,
                             [ available |-> cld3Available,
                               promise |-> detectorPromise,
                               detector |-> "detector" ], detection)
         IN  /\ rtlCache' = r.cache
             /\ tasks' = [tasks EXCEPT ![t] = Returned(@, r.isRtl, detection)]
             /\ detectorLog' = Append(detectorLog,
                                      [op |-> "findLanguage", word |-> word])
    /\ UNCHANGED << doc, formatter, paragraph, cld3Available, detectorPromise,
                    call, output, fnArgs, fnResult, inFlight >>

\* isWordRtlAsync after the await, without a detector: the heuristic; the
\* result is cached and returned
Fallback(t) ==
    /\ tasks[t].pc \in {"await null", "await promise"}
    /\ Awaited(t) = "none"
    /\ LET word == Head(tasks[t].words)
           r == DetectWith(word, rtlCache,
                           [ available |-> cld3Available,
                             promise |-> detectorPromise,
                             detector |-> "none" ], "nothing")
       IN  /\ rtlCache' = r.cache
           /\ tasks' = [tasks EXCEPT ![t] = Returned(@, r.isRtl, "unavailable")]
    /\ UNCHANGED << doc, formatter, paragraph, cld3Available, detectorPromise,
                    call, output, fnArgs, fnResult, detectorLog, inFlight >>

NextClassify ==
    \/ \E t \in TaskIds : ReturnCached(t)
    \/ \E t \in TaskIds : AwaitDetector(t)
    \/ ImportSettles
    \/ LoadSettles
    \/ \E t \in TaskIds : Identify(t)
    \/ \E t \in TaskIds : Fallback(t)

SpecClassify == InitClassify /\ [][NextClassify]_vars

(***************************************************************************)
(* isWordRtlAsync without a detector, over words of several scripts.       *)
(***************************************************************************)

\* at most this many code points in a word handed to isWordRtlAsync
MaxWordLength == 2

\* "a"; Hebrew alef and tav (U+05D0, U+05EA); Arabic U+0600, alef (U+0627)
\* and U+06FF; Syriac alaph (U+0710); U+0750; Hebrew presentation form
\* U+FB1D; Arabic presentation forms U+FB50 and U+FE70
ScriptSamples == {97, 1488, 1514, 1536, 1575, 1791, 1808, 1872, 64285, 64336, 65136}

\* the detector is known to be unavailable, or its initialisation is yet to
\* fail
FallbackArguments ==
    [ fn : {"isWordRtlAsync"},
      word : UNION { [1..n -> ScriptSamples] : n \in 1..MaxWordLength },
      cld3Available : {"false", "null"} ]

InitFallback ==
    /\ NoParagraph
    /\ NoTasks
    /\ fnArgs \in FallbackArguments
    /\ fnResult = NotRun

\* isWordRtlAsync(word) on an empty cache, in the runs that end without a
\* detector
RunFallback ==
    /\ fnArgs.fn = "isWordRtlAsync"
    /\ ~fnResult.ran
    /\ \E r \in isWordRtlAsync(fnArgs.word, << >>, fnArgs.cld3Available,
                               IF fnArgs.cld3Available = "false"
                               THEN "none" ELSE "null") :
         /\ r.available = "false"
         /\ fnResult' = [ran |-> TRUE, isRtl |-> r.isRtl, cache |-> r.cache]
    /\ UNCHANGED << paragraphVars, concurrentVars, fnArgs >>

SpecFallback == InitFallback /\ [][RunFallback]_vars

\* --- getStartingX ---

AlignArguments ==
    [ fn : {"getStartingX"},
      pageWidth : {100, 200},
      leftMargin : {0, 20, 40},
      rightMargin : {20, 60},
      currentLineWidth : {0, 50, 160, 220},
      isRTL : BOOLEAN,
      align : {Undefined, Some("left"), Some("right"), Some("center")} ]

InitAlign ==
    /\ NoParagraph
    /\ NoTasks
    /\ fnArgs \in AlignArguments
    /\ fnResult = NotRun

RunGetStartingX ==
    /\ fnArgs.fn = "getStartingX"
    /\ ~fnResult.ran
    /\ fnResult' = [ ran |-> TRUE,
                     x |-> getStartingX(fnArgs.pageWidth, fnArgs.leftMargin,
                                        fnArgs.rightMargin,
                                        fnArgs.currentLineWidth, fnArgs.isRTL,
                                        fnArgs.align) ]
    /\ UNCHANGED << paragraphVars, concurrentVars, fnArgs >>

SpecAlign == InitAlign /\ [][RunGetStartingX]_vars

(***************************************************************************)
(* swapParentheses.                                                        *)
(***************************************************************************)

\* "TEMP_MARKER"
TEMP_MARKER == << 84, 69, 77, 80, 95, 77, 65, 82, 75, 69, 82 >>

\* text.replace(/pattern/g, replacement) for a literal pattern, from index i:
\* the matches are found left to right and do not overlap
RECURSIVE ReplaceAll(_, _, _, _)
ReplaceAll(text, i, pattern, replacement) ==
    IF i > Len(text) THEN << >>
    ELSE IF /\ i + Len(pattern) - 1 <= Len(text)
            /\ SubSeq(text, i, i + Len(pattern) - 1) = pattern
         THEN replacement \o ReplaceAll(text, i + Len(pattern), pattern,
                                        replacement)
         ELSE << text[i] >> \o ReplaceAll(text, i + 1, pattern, replacement)

swapParentheses(text) ==
    ReplaceAll(ReplaceAll(ReplaceAll(text, 1, << 40 >>, TEMP_MARKER),
                          1, << 41 >>, << 40 >>),
               1, TEMP_MARKER, << 41 >>)

\* at most this many pieces in a text handed to swapParentheses
MaxPieces == 3

\* "(", ")", "a" and "TEMP_MARKER"
TextPieces == { << 40 >>, << 41 >>, << 97 >>, TEMP_MARKER }

RECURSIVE Concat(_, _)
Concat(pieces, i) ==
    IF i > Len(pieces) THEN << >> ELSE pieces[i] \o Concat(pieces, i + 1)

SwapArguments ==
    [ fn : {"swapParentheses"},
      text : { Concat(pieces, 1) :
                 pieces \in UNION { [1..n -> TextPieces] : n \in 0..MaxPieces } } ]

InitSwap ==
    /\ NoParagraph
    /\ NoTasks
    /\ fnArgs \in SwapArguments
    /\ fnResult = NotRun

\* swapParentheses(text)
RunSwap ==
    /\ fnArgs.fn = "swapParentheses"
    /\ ~fnResult.ran
    /\ fnResult' = [ran |-> TRUE, texts |-> << swapParentheses(fnArgs.text) >>]
    /\ UNCHANGED << paragraphVars, concurrentVars, fnArgs >>

\* swapParentheses(swapParentheses(text))
RunSwapAgain ==
    /\ fnArgs.fn = "swapParentheses"
    /\ fnResult.ran
    /\ Len(fnResult.texts) = 1
    /\ fnResult' = [fnResult EXCEPT
                      !.texts = Append(@, swapParentheses(@[1]))]
    /\ UNCHANGED << paragraphVars, concurrentVars, fnArgs >>

NextSwap ==
    \/ RunSwap
    \/ RunSwapAgain

SpecSwap == InitSwap /\ [][NextSwap]_vars

(***************************************************************************)
(* Concurrent paragraphs: the host calls formatter.addRichParagraph for    *)
(* several paragraphs on the one document without awaiting each in turn.   *)
(* A call runs without interruption up to await processFragmentsToWords,   *)
(* is suspended at each await isWordRtlAsync(word), and runs from the last *)
(* of them to its return.                                                  *)
(***************************************************************************)

\* the arguments of a concurrent paragraph: one regular fragment, with or
\* without a font-size override
PairArguments ==
    { a \in HostArguments : /\ Len(a.fragments) = 1
                            /\ a.fragments[1].isBold = Undefined
                            /\ a.isRTL = Undefined
                            /\ a.currentY = 38 }

InitPair ==
    /\ NoParagraph
    /\ fnArgs = NoArgs
    /\ fnResult = NotRun
    /\ tasks = << >>
    /\ detectorLog = << >>
    /\ \E args \in [TaskIds -> PairArguments] :
           inFlight = [t \in TaskIds |-> [pc |-> "idle", args |-> args[t]]]

\* addRichParagraphAsync up to its first await: setupFont, the metrics, and
\* the words processFragmentsToWords is about to classify
BeginPair(t) ==
    /\ inFlight[t].pc = "idle"
    /\ LET params == ResolveParams(formatter, inFlight[t].args)
           d1 == DocAtStart(doc, params)
       IN  /\ doc' = d1
           /\ inFlight' = [inFlight EXCEPT
                ![t] = [ pc |-> "words", args |-> @.args, params |-> params,
                         pre |-> doc, metrics |-> MetricsAtStart(d1, params),
                         tokens |-> FragmentTokens(params.fragments, 1),
                         words |-> << >> ]]
    /\ UNCHANGED << formatter, paragraph, rtlCache, cld3Available,
                    detectorPromise, call, output, fnArgs, fnResult, tasks,
                    detectorLog >>

\* processFragmentsToWords: the next word of call t, classified
ClassifyPair(t) ==
    /\ inFlight[t].pc = "words"
    /\ Len(inFlight[t].tokens) > 0
    /\ LET token == Head(inFlight[t].tokens)
       IN  \E r \in isWordRtlAsync(token.word, rtlCache, cld3Available,
                                   detectorPromise) :
             /\ rtlCache' = r.cache
             /\ cld3Available' = r.available
             /\ detectorPromise' = r.promise
             /\ inFlight' = [inFlight EXCEPT
                               ![t].tokens = Tail(@),
                               ![t].words = Append(@, [word |-> token.word,
                                                       isBold |-> token.isBold,
                                                       isRtlLang |-> r.isRtl])]
    /\ UNCHANGED << doc, formatter, paragraph, call, output, fnArgs, fnResult,
                    tasks, detectorLog >>

\* addRichParagraphAsync after processFragmentsToWords, on the document as
\* it is by then
FinishPair(t) ==
    /\ inFlight[t].pc = "words"
    /\ Len(inFlight[t].tokens) = 0
    /\ LET c == inFlight[t]
           r == addRichParagraphTail(doc, c.params, c.metrics, c.words)
       IN  /\ doc' = r.doc
           /\ output' = output \o r.sent
           /\ inFlight' = [inFlight EXCEPT
                ![t] = [ pc |-> "done", args |-> c.args, params |-> c.params,
                         pre |-> c.pre, metrics |-> c.metrics,
                         words |-> c.words, sent |-> r.sent, ret |-> r.ret ]]
    /\ UNCHANGED << formatter, paragraph, rtlCache, cld3Available,
                    detectorPromise, call, fnArgs, fnResult, tasks,
                    detectorLog >>

NextPair ==
    \/ \E t \in TaskIds : BeginPair(t)
    \/ \E t \in TaskIds : ClassifyPair(t)
    \/ \E t \in TaskIds : FinishPair(t)

SpecPair == InitPair /\ [][NextPair]_vars

\* --- writeRichLine ---

\* at most this many words in a line handed to writeRichLine
MaxLineWords == 3

\* distinct words "a", "b", ... with the given weights and directions
StyledWords(styles) ==
    [i \in 1..Len(styles) |->
        [ word |-> Letter(i), isBold |-> styles[i].isBold,
          isRtlLang |-> styles[i].isRtlLang ]]

RenderArguments ==
    [ fn : {"writeRichLine"},
      doc : [ pageSize : {[width |-> 52, height |-> 60]}, fontSize : {10},
              font : {"helvetica"}, weight : {"normal", "bold"} ],
      line : { StyledWords(styles) :
                 styles \in UNION { [1..n -> [isBold : BOOLEAN, isRtlLang : BOOLEAN]] :
                                      n \in 0..MaxLineWords } },
      y : {38},
      isRTL : BOOLEAN,
      align : {Undefined, Some("left"), Some("right"), Some("center")},
      pageWidth : {52, 200},
      leftMargin : {20},
      rightMargin : {20},
      font : {Undefined, Some("Amiri")} ]

InitRender ==
    /\ NoParagraph
    /\ NoTasks
    /\ fnArgs \in RenderArguments
    /\ fnResult = NotRun

RunWriteRichLine ==
    /\ fnArgs.fn = "writeRichLine"
    /\ ~fnResult.ran
    /\ LET r == writeRichLine(fnArgs.doc, fnArgs.line, fnArgs.y, fnArgs.isRTL,
                              fnArgs.align, fnArgs.pageWidth, fnArgs.leftMargin,
                              fnArgs.rightMargin, fnArgs.font)
       IN  fnResult' = [ ran |-> TRUE, draws |-> r.draws, doc |-> r.doc,
                         line |-> LineAfterWrite(fnArgs.line, fnArgs.isRTL) ]
    /\ UNCHANGED << paragraphVars, concurrentVars, fnArgs >>

SpecRender == InitRender /\ [][RunWriteRichLine]_vars

(***************************************************************************)
(* Properties.                                                             *)
(***************************************************************************)

\* --- what the document received ---

TextDraws == { k \in 1..Len(output) : output[k].op = "text" }

\* the page a call went to, counted in addPage calls before it
PageOf(k) == Cardinality({ q \in 1..k : output[q].op = "addPage" })

SameLine(k1, k2) == PageOf(k1) = PageOf(k2) /\ output[k1].y = output[k2].y

LaterLine(k1, k2) ==
    \/ PageOf(k1) > PageOf(k2)
    \/ PageOf(k1) = PageOf(k2) /\ output[k1].y > output[k2].y

\* the width the renderer gives the k-th drawn word
DrawnWidth(k) ==
    getTextWidth([fontSize |-> output[k].fontSize, weight |-> output[k].weight],
                 output[k].text)

AddDone == call.pc = "done" /\ call.mode = "add"
MeasureDone == call.pc = "done" /\ call.mode = "measure"

\* the word at position i of the extracted sequence occurs there only
OccursOnce(words, i) == \A j \in 1..Len(words) : words[j] = words[i] => j = i

\* C1: whenever word u precedes word v in the extracted order, u is never
\* drawn on a later line than v (stated for words that occur once, so that a
\* drawn word names its position).
C1_ReadingOrderAcrossLines ==
    AddDone =>
        \A i, j \in 1..Len(call.words) :
            (i < j /\ OccursOnce(call.words, i) /\ OccursOnce(call.words, j)) =>
                \A ku, kv \in TextDraws :
                    (output[ku].item = call.words[i]
                       /\ output[kv].item = call.words[j]) => ~LaterLine(ku, kv)

\* --- layoutLinesAcrossPages ---

LayoutRan == fnArgs.fn = "layoutLinesAcrossPages" /\ fnResult.ran

OnLineCalls == SelectSeq(fnResult.calls, LAMBDA c : c.cb = "onLine")

\* where in the call sequence the k-th onLine call is (0 for k = 0)
OnLinePosition(k) ==
    IF k = 0 THEN 0
    ELSE CHOOSE p \in 1..Len(fnResult.calls) :
            /\ fnResult.calls[p].cb = "onLine"
            /\ Cardinality({ q \in 1..p : fnResult.calls[q].cb = "onLine" }) = k

\* the onPageBreak calls made between the (k-1)-th and the k-th onLine call
BreaksBeforeLine(k) ==
    Cardinality({ q \in (OnLinePosition(k - 1) + 1)..(OnLinePosition(k) - 1) :
                    fnResult.calls[q].cb = "onPageBreak" })

Clamp(x, lo, hi) == Max(lo, Min(x, hi))

\* the cursor when the k-th line is reached
CursorAtLine(k) ==
    IF k = 1 THEN fnArgs.currentY
    ELSE OnLineCalls[k - 1].y + fnArgs.metrics.lineHeight

PaginationExample ==
    /\ fnArgs.fn = "layoutLinesAcrossPages"
    /\ fnArgs.cbs.onLine /\ fnArgs.cbs.onPageBreak
    /\ fnArgs.metrics.lineHeight = 10 /\ fnArgs.metrics.topMargin = 20
    /\ fnArgs.metrics.bottomMargin = 20 /\ fnArgs.metrics.pageHeight = 100
    /\ Len(fnArgs.lines) = 7 /\ fnArgs.currentY = 75

\* C2: a page break is triggered before a line exactly when the cursor is
\* strictly greater than pageHeight - bottomMargin, and the line is then placed
\* at clamp(topMargin, 0, pageHeight - bottomMargin); otherwise it is placed at
\* the cursor; the cursor then advances by lineHeight.  With lineHeight 10,
\* margins 20, pageHeight 100, 7 lines from y = 75: a break before the 2nd
\* line, which is placed at 20.
C2_PageBreakRule ==
    (LayoutRan /\ fnArgs.cbs.onLine /\ fnArgs.cbs.onPageBreak) =>
        LET m == fnArgs.metrics
            boundary == m.pageHeight - m.bottomMargin
            n == Len(OnLineCalls)
        IN  /\ \A k \in 1..n :
                  LET past == CursorAtLine(k) > boundary
                  IN  /\ BreaksBeforeLine(k) = IF past THEN 1 ELSE 0
                      /\ OnLineCalls[k].y =
                            IF past THEN Clamp(m.topMargin, 0, boundary)
                            ELSE CursorAtLine(k)
            /\ n > 0 => /\ fnResult.y = OnLineCalls[n].y + m.lineHeight
                        /\ OnLinePosition(n) = Len(fnResult.calls)
            /\ PaginationExample =>
                  /\ BreaksBeforeLine(1) = 0
                  /\ BreaksBeforeLine(2) = 1
                  /\ OnLineCalls[2].y = 20

C2_Witness == LayoutRan /\ PaginationExample

\* C3: onLine is invoked exactly once per line, in the order of the line list;
\* when the starting position is already past the bottom boundary the page
\* break happens before the first line, which is still handed to onLine.
C3_EveryLineOnceInOrder ==
    (LayoutRan /\ fnArgs.cbs.onLine) =>
        /\ [k \in 1..Len(OnLineCalls) |-> OnLineCalls[k].line] = fnArgs.lines
        /\ ( /\ Len(fnArgs.lines) > 0
             /\ fnArgs.cbs.onPageBreak
             /\ fnArgs.currentY
                  > fnArgs.metrics.pageHeight - fnArgs.metrics.bottomMargin )
           => /\ fnResult.calls[1].cb = "onPageBreak"
              /\ fnResult.calls[2].cb = "onLine"
              /\ fnResult.calls[2].line = fnArgs.lines[1]

C3_Witness ==
    /\ LayoutRan /\ fnArgs.cbs.onLine /\ fnArgs.cbs.onPageBreak
    /\ Len(fnArgs.lines) >= 2
    /\ fnArgs.currentY > fnArgs.metrics.pageHeight - fnArgs.metrics.bottomMargin
    /\ Len(OnLineCalls) = Len(fnArgs.lines)

\* --- blank paragraphs ---

WhitespaceOnly(fragments) ==
    \A k \in 1..Len(fragments) :
        \A i \in 1..Len(fragments[k].text) : IsWhitespace(fragments[k].text[i])

\* the vertical position either entry point returned
ReturnedY == IF call.mode = "add" THEN call.ret.finalY ELSE call.ret.currentY

\* the line height the host's arguments ask for: customLineHeight, else half
\* the font size in effect
RequestedLineHeight ==
    LET size == Coalesce(paragraph.fontSize, formatter.defaultFontSize)
    IN  IF Truthy(paragraph.customLineHeight) THEN Get(paragraph.customLineHeight)
        ELSE (IF Truthy(size) THEN Get(size) ELSE call.pre.fontSize) \div 2

\* C4: a paragraph whose fragments hold only whitespace (or that has no
\* fragments) returns exactly startY + lineHeight and produces no draw call
\* and no page break, for every startY.
C4_BlankParagraphAdvancesOneLine ==
    (call.pc = "done" /\ WhitespaceOnly(paragraph.fragments)) =>
        /\ ReturnedY = paragraph.currentY + RequestedLineHeight
        /\ output = << >>

C4_Witness ==
    /\ AddDone
    /\ Len(paragraph.fragments) > 0
    /\ WhitespaceOnly(paragraph.fragments)
    /\ paragraph.currentY > call.metrics.pageHeight - call.metrics.bottomMargin

\* --- measuring against adding ---

\* what addRichParagraphAsync does from the state and arguments the call began with
AddFromStart ==
    LET d == DocAtStart(call.pre, call.params)
    IN  addRichParagraphTail(d, call.params, MetricsAtStart(d, call.params),
                             call.words)

\* the lines among a sequence of document calls
LinesDrawnIn(sent) ==
    { << Cardinality({ q \in 1..k : sent[q].op = "addPage" }), sent[k].y >> :
        k \in { q \in 1..Len(sent) : sent[q].op = "text" } }

\* C5: for the same document state, fragments and configuration,
\* measureRichParagraph returns the currentY that addRichParagraph returns and
\* the lineCount of lines addRichParagraph draws, and itself issues no draw
\* call and no addPage call.
C5_MeasureAgreesWithAdd ==
    MeasureDone =>
        /\ call.ret.currentY = AddFromStart.ret.finalY
        /\ call.ret.lineCount = Cardinality(LinesDrawnIn(AddFromStart.sent))
        /\ output = << >>

C5_Witness ==
    /\ MeasureDone
    /\ call.ret.lineCount >= 2
    /\ \E k \in 1..Len(AddFromStart.sent) : AddFromStart.sent[k].op = "addPage"

\* --- buildRichLines ---

BuilderRan == fnArgs.fn = "buildRichLines" /\ fnResult.ran

RECURSIVE Flatten(_)
Flatten(lines) ==
    IF Len(lines) = 0 THEN << >> ELSE Head(lines) \o Flatten(Tail(lines))

\* C6: the lines are a partition of the input into consecutive non-empty
\* segments: concatenated in order they give the input word sequence, no line
\* is empty, and empty input gives an empty line list.
C6_LinesPartitionWords ==
    BuilderRan =>
        /\ Flatten(fnResult.lines) = fnArgs.words
        /\ \A l \in 1..Len(fnResult.lines) : Len(fnResult.lines[l]) > 0
        /\ Len(fnArgs.words) = 0 => fnResult.lines = << >>

C6_Witness ==
    /\ BuilderRan
    /\ Len(fnResult.lines) >= 2
    /\ \E l \in 1..Len(fnResult.lines) : Len(fnResult.lines[l]) >= 2
    /\ \E i \in 1..Len(fnArgs.words) :
          getTextWidth(fnArgs.doc, Append(fnArgs.words[i].word, 32))
            > fnArgs.maxWidth

\* a word's measured width plus one space, in the builder's font state
EstimateOfWord(wordObj) ==
    getTextWidth(fnArgs.doc, wordObj.word) + getTextWidth(fnArgs.doc, <<32>>)

RECURSIVE EstimateOfLine(_)
EstimateOfLine(line) ==
    IF Len(line) = 0 THEN 0
    ELSE EstimateOfWord(Head(line)) + EstimateOfLine(Tail(line))

\* C7: for every maximum width (zero and negative too), every line holding
\* more than one word has an estimated width not exceeding maxWidth; a word
\* that alone exceeds maxWidth occupies a line by itself.
C7_MultiWordLinesFit ==
    BuilderRan =>
        \A l \in 1..Len(fnResult.lines) :
            LET line == fnResult.lines[l]
            IN  /\ Len(line) > 1 => EstimateOfLine(line) <= fnArgs.maxWidth
                /\ \A i \in 1..Len(line) :
                      EstimateOfWord(line[i]) > fnArgs.maxWidth => Len(line) = 1

C7_Witness ==
    /\ BuilderRan
    /\ \E l \in 1..Len(fnResult.lines) :
          /\ Len(fnResult.lines[l]) > 1
          /\ EstimateOfLine(fnResult.lines[l]) = fnArgs.maxWidth
    /\ \E l \in 1..Len(fnResult.lines) :
          EstimateOfLine(fnResult.lines[l]) > fnArgs.maxWidth

\* C8: every drawn line holding more than one word has a rendered width (each
\* word in the weight it is drawn in, one space per gap) that does not exceed
\* the maximum content width.
C8_RenderedLinesFit ==
    AddDone =>
        \A k1, k2 \in TextDraws :
            (k1 < k2 /\ SameLine(k1, k2)) =>
                output[k2].x + DrawnWidth(k2) - output[k1].x <= call.metrics.maxWidth

\* --- reverseLanguageSequences ---

ReorderRan == fnArgs.fn = "reverseLanguageSequences" /\ fnResult.ran

\* the maximal run of equal direction flags around position p
RunStart(words, p) ==
    CHOOSE s \in 1..p :
        /\ \A q \in s..p : words[q].isRtlLang = words[p].isRtlLang
        /\ s > 1 => words[s - 1].isRtlLang # words[p].isRtlLang

RunEnd(words, p) ==
    CHOOSE e \in p..Len(words) :
        /\ \A q \in p..e : words[q].isRtlLang = words[p].isRtlLang
        /\ e < Len(words) => words[e + 1].isRtlLang # words[p].isRtlLang

\* the runs in place, those foreign to the paragraph direction reversed
RunsReversedInPlace(words, isRTL) ==
    [p \in 1..Len(words) |->
        IF words[p].isRtlLang # isRTL
        THEN words[RunStart(words, p) + RunEnd(words, p) - p]
        ELSE words[p]]

\* C9: the Sequence Reorderer returns the maximal same-direction runs in
\* their original order, a run reversed exactly when its direction differs
\* from the paragraph direction: a uniform sequence of the paragraph's
\* direction is unchanged, one of the opposite direction is fully reversed,
\* and alternating single-word runs are unchanged.
C9_ForeignRunsReversed ==
    ReorderRan =>
        LET words == fnArgs.words
            n == Len(words)
        IN  /\ fnResult.words = RunsReversedInPlace(words, fnArgs.isRTL)
            /\ (\A p \in 1..n : words[p].isRtlLang = fnArgs.isRTL)
                  => fnResult.words = words
            /\ (\A p \in 1..n : words[p].isRtlLang # fnArgs.isRTL)
                  => fnResult.words = Reverse(words)
            /\ (\A p \in 1..(n - 1) : words[p].isRtlLang # words[p + 1].isRtlLang)
                  => fnResult.words = words

C9_Witness ==
    /\ ReorderRan
    /\ fnArgs.isRTL
    /\ Len(fnArgs.words) = 5
    /\ ~fnArgs.words[1].isRtlLang /\ ~fnArgs.words[2].isRtlLang
    /\ fnArgs.words[3].isRtlLang
    /\ ~fnArgs.words[4].isRtlLang /\ ~fnArgs.words[5].isRtlLang
    /\ fnResult.words # fnArgs.words

\* C10: with or without a default font, every word of a fragment with
\* isBold = true is drawn with the bold weight set, and every word of a
\* non-bold fragment with the normal weight set.
C10_WordsDrawnInTheirWeight ==
    AddDone =>
        \A k \in TextDraws :
            output[k].weight = IF output[k].item.isBold THEN "bold" ELSE "normal"


\* --- concurrent classification ---

\* how many times detector.findLanguage was called on the word
FindLanguageCalls(word) ==
    Cardinality({ k \in 1..Len(detectorLog) :
                    /\ detectorLog[k].op = "findLanguage"
                    /\ detectorLog[k].word = word })

\* the classifications that have returned: <<task, position>> pairs
Classified == { <<t, i>> : t \in TaskIds, i \in 1..MaxTaskWords + 1 }
ReturnedAt(c) == c[2] <= Len(tasks[c[1]].results)
ResultAt(c) == tasks[c[1]].results[c[2]]

FallbackRan == fnArgs.fn = "isWordRtlAsync" /\ fnResult.ran

\* the blocks of the Arabic and the Hebrew script: Hebrew U+0590-05FF, Arabic
\* U+0600-06FF, Arabic Supplement U+0750-077F, Arabic Extended-A
\* U+08A0-08FF, Hebrew presentation forms U+FB1D-FB4F, Arabic presentation
\* forms A U+FB50-FDFF and B U+FE70-FEFF
InArabicOrHebrewBlocks(c) ==
    \/ (c >= 1424 /\ c <= 1535)
    \/ (c >= 1536 /\ c <= 1791)
    \/ (c >= 1872 /\ c <= 1919)
    \/ (c >= 2208 /\ c <= 2303)
    \/ (c >= 64285 /\ c <= 64335)
    \/ (c >= 64336 /\ c <= 65023)
    \/ (c >= 65136 /\ c <= 65279)

\* C12: without a language identifier, a word is classified right-to-left
\* exactly when it holds a code point of an Arabic or a Hebrew block
C12_HeuristicCoversArabicAndHebrew ==
    FallbackRan =>
        fnResult.isRtl = (\E i \in 1..Len(fnArgs.word) :
                              InArabicOrHebrewBlocks(fnArgs.word[i]))

\* --- alignment ---

AlignRan == fnArgs.fn = "getStartingX" /\ fnResult.ran

\* the width left free on the line (negative when the line overflows)
FreeWidth ==
    fnArgs.pageWidth - fnArgs.leftMargin - fnArgs.rightMargin
    - fnArgs.currentLineWidth

RightEdgeStart == fnArgs.pageWidth - fnArgs.rightMargin - fnArgs.currentLineWidth

\* C13: getStartingX returns leftMargin for left; pageWidth - rightMargin -
\* lineWidth for right; for center leftMargin plus half the free width, or
\* leftMargin when the line overflows, so never less than leftMargin; and
\* with no alignment the value of right for a right-to-left paragraph and
\* the value of left otherwise
C13_StartingXByAlignment ==
    AlignRan =>
        /\ fnArgs.align = Some("left") => fnResult.x = fnArgs.leftMargin
        /\ fnArgs.align = Some("right") => fnResult.x = RightEdgeStart
        /\ fnArgs.align = Some("center") =>
             /\ fnResult.x >= fnArgs.leftMargin
             /\ 2 * (fnResult.x - fnArgs.leftMargin)
                  = (IF FreeWidth > 0 THEN FreeWidth ELSE 0)
        /\ fnArgs.align = Undefined =>
             fnResult.x = (IF fnArgs.isRTL THEN RightEdgeStart
                           ELSE fnArgs.leftMargin)

\* an overflowing line was centred, and a right-to-left line was placed with
\* no alignment given
C13_Witness ==
    /\ AlignRan
    /\ \/ fnArgs.align = Some("center") /\ FreeWidth < 0
       \/ fnArgs.align = Undefined /\ fnArgs.isRTL /\ FreeWidth > 0

IsAlignExample ==
    /\ fnArgs.pageWidth = 200
    /\ fnArgs.leftMargin = 20
    /\ fnArgs.rightMargin = 20
    /\ fnArgs.currentLineWidth = 50

\* C14: for pageWidth 200, margins 20 and 20 and a line 50 wide, getStartingX
\* returns 85 for center, 130 for right and 20 for left
C14_StartingXExample ==
    (AlignRan /\ IsAlignExample) =>
        /\ fnArgs.align = Some("center") => fnResult.x = 85
        /\ fnArgs.align = Some("right") => fnResult.x = 130
        /\ fnArgs.align = Some("left") => fnResult.x = 20

\* C14, amended: for pageWidth 200, margins 20 and 20 and a line 50 wide,
\* getStartingX returns 75 for center (20 plus half of the free 110), 130 for
\* right and 20 for left
C14_StartingXExampleCentred ==
    (AlignRan /\ IsAlignExample) =>
        /\ fnArgs.align = Some("center") => fnResult.x = 75
        /\ fnArgs.align = Some("right") => fnResult.x = 130
        /\ fnArgs.align = Some("left") => fnResult.x = 20

\* the example was run with align center
C14_Witness ==
    AlignRan /\ IsAlignExample /\ fnArgs.align = Some("center")

\* --- swapParentheses ---

SwapRan == fnArgs.fn = "swapParentheses" /\ fnResult.ran

\* the character with the roles of "(" and ")" exchanged
Mirrored(c) == IF c = 40 THEN 41 ELSE IF c = 41 THEN 40 ELSE c

\* C15: swapParentheses returns a string as long as its input with every "("
\* replaced by ")", every ")" by "(" and every other character unchanged in
\* place; applied twice it returns the input
C15_ParenthesesSwappedInPlace ==
    SwapRan =>
        /\ Len(fnResult.texts[1]) = Len(fnArgs.text)
        /\ \A i \in 1..Len(fnArgs.text) :
             fnResult.texts[1][i] = Mirrored(fnArgs.text[i])
        /\ Len(fnResult.texts) = 2 => fnResult.texts[2] = fnArgs.text

\* how many times the initialiser of the detector was started
Initialisations ==
    Cardinality({ k \in 1..Len(detectorLog) : detectorLog[k].op = "init" })

NoFindLanguage == \A k \in 1..Len(detectorLog) : detectorLog[k].op # "findLanguage"

\* C16: under every interleaving of concurrent paragraphs the detector's
\* initialisation is started at most once; once it has failed, no
\* classification starts it again, none reaches the identifier, and every
\* classification returns the heuristic's direction
C16_InitialisedAtMostOnce ==
    /\ Initialisations <= 1
    /\ cld3Available = "false" =>
         /\ Initialisations = 1
         /\ NoFindLanguage
         /\ \A c \in Classified :
              ReturnedAt(c) =>
                  /\ ResultAt(c).detection \in {"unavailable", "cached"}
                  /\ ResultAt(c).isRtl = FallbackIsRtl(ResultAt(c).word)

\* the initialisation failed, both tasks have classified a word since, and
\* one of them has classified two different words by the heuristic
C16_Witness ==
    /\ cld3Available = "false"
    /\ \A t \in TaskIds : Len(tasks[t].results) >= 1
    /\ \E t \in TaskIds :
         /\ Len(tasks[t].results) = 2
         /\ \A i \in 1..2 : tasks[t].results[i].detection = "unavailable"
         /\ tasks[t].results[1].word # tasks[t].results[2].word

\* task t's isWordRtlAsync returns in this step
Returns(t) == Len(tasks'[t].results) = Len(tasks[t].results) + 1

\* what it returns
Returning(t) == tasks'[t].results[Len(tasks'[t].results)]

\* C18: a classification that resumes with the detector invokes the
\* identifier on its word, whatever the identifier did for earlier words; if
\* the identifier throws or names no language, the call still returns, with
\* the heuristic's direction for that word, that direction is cached, and the
\* detector stays in use
C18_FallbackForOneWordOnly ==
    [][\A t \in TaskIds :
         (Returns(t) /\ tasks[t].pc = "await promise"
                     /\ detectorPromise = "detector") =>
             /\ detectorLog' = Append(detectorLog,
                                      [ op |-> "findLanguage",
                                        word |-> Returning(t).word ])
             /\ Returning(t).word = Head(tasks[t].words)
             /\ Returning(t).detection \in {"throws", "nothing"} =>
                  /\ Returning(t).isRtl = FallbackIsRtl(Returning(t).word)
                  /\ Returning(t).word \in DOMAIN rtlCache'
                  /\ rtlCache'[Returning(t).word] = Returning(t).isRtl
                  /\ tasks'[t].pc \in {"call", "done"}
                  /\ cld3Available' = "true"
                  /\ detectorPromise' = "detector"]_vars

\* the identifier threw on a task's first word, an Arabic one that the
\* heuristic classified right-to-left, and the task's second, different word
\* was identified
C18_Witness ==
    \E t \in TaskIds :
        /\ Len(tasks[t].results) = 2
        /\ tasks[t].results[1].detection = "throws"
        /\ tasks[t].results[1].isRtl
        /\ tasks[t].results[2].word # tasks[t].results[1].word
        /\ tasks[t].results[2].detection \in {"en", "ar"}
        /\ tasks[t].pc = "done"

\* --- concurrent paragraphs ---

\* call t laid out alone: from the document it found at its start, with the
\* words it classified
LaidOutAlone(t) ==
    LET c == inFlight[t]
        d1 == DocAtStart(c.pre, c.params)
    IN  addRichParagraphTail(d1, c.params, MetricsAtStart(d1, c.params), c.words)

\* C17: a paragraph laid out while another is in progress on the same
\* document draws the lines, at the positions, and returns the vertical
\* position, of the same paragraph laid out alone
C17_ConcurrentLayoutAsAlone ==
    \A t \in TaskIds :
        inFlight[t].pc = "done" =>
            /\ inFlight[t].sent = LaidOutAlone(t).sent
            /\ inFlight[t].ret = LaidOutAlone(t).ret

\* --- writeRichLine ---

RenderRan == fnArgs.fn = "writeRichLine" /\ fnResult.ran

\* the width the renderer gives the i-th word writeRichLine drew
WidthOfDraw(i) ==
    getTextWidth([ fontSize |-> fnResult.draws[i].fontSize,
                   weight |-> fnResult.draws[i].weight ], fnResult.draws[i].text)

\* the width of a space on the document writeRichLine was given
SpaceOfLine == getTextWidth(fnArgs.doc, << 32 >>)

RECURSIVE WidthOfDraws(_)
WidthOfDraws(n) ==
    IF n = 0 THEN 0
    ELSE WidthOfDraws(n - 1) + WidthOfDraw(n) + (IF n > 1 THEN SpaceOfLine ELSE 0)

\* the position in the line of the i-th word drawn
LinePositionOfDraw(i) ==
    IF fnArgs.isRTL THEN Len(fnArgs.line) + 1 - i ELSE i

\* C19: writeRichLine draws the words of the line in line order for a
\* left-to-right paragraph and in the reverse of it for a right-to-left one,
\* all at the line's y, each with its own isRtlLang as the direction hint;
\* the first at the start X resolved for the line's width, each following
\* one at the previous X plus the previous word's width plus a space; and
\* the line itself keeps its order
C19_LineDrawnInVisualOrder ==
    RenderRan =>
        /\ Len(fnResult.draws) = Len(fnArgs.line)
        /\ \A i \in 1..Len(fnResult.draws) :
             /\ fnResult.draws[i].item = fnArgs.line[LinePositionOfDraw(i)]
             /\ fnResult.draws[i].text = fnArgs.line[LinePositionOfDraw(i)].word
             /\ fnResult.draws[i].isOutputRtl
                  = fnArgs.line[LinePositionOfDraw(i)].isRtlLang
             /\ fnResult.draws[i].y = fnArgs.y
             /\ i = 1 =>
                  fnResult.draws[i].x
                    = getStartingX(fnArgs.pageWidth, fnArgs.leftMargin,
                                   fnArgs.rightMargin,
                                   WidthOfDraws(Len(fnResult.draws)),
                                   fnArgs.isRTL, fnArgs.align)
             /\ i > 1 =>
                  fnResult.draws[i].x
                    = fnResult.draws[i - 1].x + WidthOfDraw(i - 1) + SpaceOfLine
        /\ fnResult.line = fnArgs.line

\* a right-to-left line of three words, of both weights and both directions,
\* was drawn centred in the default font
C19_Witness ==
    /\ RenderRan
    /\ fnArgs.isRTL
    /\ fnArgs.align = Some("center")
    /\ IsDefined(fnArgs.font)
    /\ Len(fnResult.draws) = 3
    /\ fnResult.draws[1].item = fnArgs.line[3]
    /\ fnResult.draws[1].x > fnArgs.leftMargin
    /\ \E i, j \in 1..3 : /\ fnArgs.line[i].isBold /\ ~fnArgs.line[j].isBold
    /\ \E i, j \in 1..3 : /\ fnArgs.line[i].isRtlLang /\ ~fnArgs.line[j].isRtlLang

\* --- greedy packing ---

\* C20: buildRichLines closes a line only when the next word does not fit:
\* for every line but the last, the line's estimated width plus the
\* estimated width (word plus one space) of the first word of the line after
\* it exceeds maxWidth
C20_LinesPackedGreedily ==
    BuilderRan =>
        \A l \in 1..Len(fnResult.lines) - 1 :
            EstimateOfLine(fnResult.lines[l])
              + EstimateOfWord(fnResult.lines[l + 1][1]) > fnArgs.maxWidth

\* a line of two words that fills maxWidth exactly is followed by another
\* line, and so is a line of one word that a second would have overfilled
C20_Witness ==
    /\ BuilderRan
    /\ \E l \in 1..Len(fnResult.lines) - 1 :
          /\ Len(fnResult.lines[l]) = 2
          /\ EstimateOfLine(fnResult.lines[l]) = fnArgs.maxWidth
    /\ \E l \in 1..Len(fnResult.lines) - 1 :
          /\ Len(fnResult.lines[l]) = 1
          /\ EstimateOfLine(fnResult.lines[l]) < fnArgs.maxWidth

\* --- lines stay above the bottom boundary ---

PageBreakCalls == SelectSeq(fnResult.calls, LAMBDA c : c.cb = "onPageBreak")

\* C21: when pageHeight - bottomMargin is not negative, every line is handed
\* to onLine at a y not greater than pageHeight - bottomMargin, whatever the
\* starting position, the top margin, the line height and the number of
\* lines; and there are never more page breaks than lines
C21_LinesAboveBottomBoundary ==
    LayoutRan =>
        /\ fnArgs.metrics.pageHeight - fnArgs.metrics.bottomMargin >= 0 =>
             \A k \in 1..Len(OnLineCalls) :
                 OnLineCalls[k].y
                   <= fnArgs.metrics.pageHeight - fnArgs.metrics.bottomMargin
        /\ Len(PageBreakCalls) <= Len(fnArgs.lines)

\* with the top margin past the bottom boundary (the boundary at 80, or at
\* 0), a layout of several lines that started past the boundary broke the
\* page before each of its lines and placed each at the boundary
C21_Witness ==
    /\ LayoutRan
    /\ fnArgs.cbs.onLine /\ fnArgs.cbs.onPageBreak
    /\ fnArgs.metrics.pageHeight - fnArgs.metrics.bottomMargin \in {0, 80}
    /\ fnArgs.metrics.topMargin
         > fnArgs.metrics.pageHeight - fnArgs.metrics.bottomMargin
    /\ Len(fnArgs.lines) >= 2
    /\ Len(PageBreakCalls) = Len(fnArgs.lines)
    /\ \A k \in 1..Len(OnLineCalls) :
          OnLineCalls[k].y
            = fnArgs.metrics.pageHeight - fnArgs.metrics.bottomMargin
====
